---- MODULE Spec2Model ----
(***************************************************************************)
(* Model of get-stock-data.py: the daily-bar ingester that downloads bars, *)
(* computes technical indicators and upserts them into the stock_data      *)
(* table, in full and in incremental mode.                                 *)
(*                                                                         *)
(* Numbers.  Prices are integers; every computed series is fixed point,    *)
(* scaled by SCALE, with floor division standing for the rounding of the   *)
(* float arithmetic (deterministic, as the floats are).  NaN is a value    *)
(* outside the range of every computed number.                             *)
(*                                                                         *)
(* Time.  A timestamp counts ticks; a calendar day holds DayTicks ticks    *)
(* and Date(ts) is the day of a timestamp.  The provider stamps the daily  *)
(* bar of day d at d * DayTicks + BarTick (midnight US/Eastern seen as a   *)
(* naive UTC datetime is 04:00 or 05:00, never 00:00).                     *)
(***************************************************************************)
EXTENDS Integers, Sequences, FiniteSets, TLC

\* ------------------------------------------------------------------ bounds
MaxDay == 3
DayTicks == 2

BarTick == DayTicks - 1
Days == 1..MaxDay
SYMBOLS == <<"AAA", "BBB">>
SymbolSet == {SYMBOLS[i] : i \in 1..Len(SYMBOLS)}

\* ------------------------------------------------ indicator periods (111-121)
RsiWindow == 14
Ma50Window == 50
Ma200Window == 200
MacdWindow == 12
MacdSlowSpan == 26
MacdSignalWindow == 26
BbWindow == 20
AdxWindow == 14

\* ------------------------------------------------------------- fixed point
SCALE == 10 * 10
NaN == 0 - 1000000000
IsNaN(x) == x = NaN
Abs(x) == IF x < 0 THEN 0 - x ELSE x
Max2(a, b) == IF a >= b THEN a ELSE b

\* a / b in float arithmetic, on fixed-point numbers: NaN in, NaN out; a
\* division by zero gives inf or NaN, and every use below maps both to NaN
\* except calculate_rsi, which tests for it first.
FDiv(a, b) == IF IsNaN(a) \/ IsNaN(b) \/ b = 0 THEN NaN ELSE (a * SCALE) \div b

RECURSIVE Isqrt(_, _, _)
Isqrt(v, lo, hi) ==
    IF lo >= hi THEN lo
    ELSE LET mid == (lo + hi + 1) \div 2
         \* mid * mid <= v, without the product
         IN IF mid <= v \div mid THEN Isqrt(v, mid, hi) ELSE Isqrt(v, lo, mid - 1)

ToSet(s) == {s[i] : i \in 1..Len(s)}

\* ------------------------------------------------------ pandas Series steps
\* a Series holds its values: the sequence with every element computed
AsSeries(s) == SubSeq(s, 1, Len(s))

\* Series.diff(-1): the difference to the next element
DiffForward(s) ==
    AsSeries([i \in 1..Len(s) |->
        IF i = Len(s) THEN NaN
        ELSE IF IsNaN(s[i]) \/ IsNaN(s[i + 1]) THEN NaN ELSE s[i + 1] - s[i]])

\* Series.diff(1): the first element has no predecessor.
Diff(s) ==
    AsSeries([i \in 1..Len(s) |->
        IF i = 1 THEN NaN
        ELSE IF IsNaN(s[i]) \/ IsNaN(s[i - 1]) THEN NaN ELSE s[i] - s[i - 1]])

\* Series.shift(1)
Shift(s) == AsSeries([i \in 1..Len(s) |-> IF i = 1 THEN NaN ELSE s[i - 1]])

RECURSIVE SumRange(_, _, _)
\* s[lo] + ... + s[hi], summed by halves
SumRange(s, lo, hi) ==
    IF lo > hi THEN 0
    ELSE IF lo = hi THEN s[lo]
    ELSE LET mid == (lo + hi) \div 2
         IN SumRange(s, lo, mid) + SumRange(s, mid + 1, hi)

HasNaN(s, lo, hi) == \E j \in lo..hi : IsNaN(s[j])

\* Series.rolling(w).mean(): min_periods defaults to w, so a window that is
\* short or holds a NaN gives NaN.
RollingMean(s, w) ==
    AsSeries([i \in 1..Len(s) |->
        IF i < w THEN NaN
        ELSE IF HasNaN(s, i - w + 1, i) THEN NaN
        ELSE SumRange(s, i - w + 1, i) \div w])

RECURSIVE SumSqDev(_, _, _, _)
SumSqDev(s, m, lo, hi) ==
    IF lo > hi THEN 0
    ELSE IF lo = hi THEN (s[lo] - m) * (s[lo] - m)
    ELSE LET mid == (lo + hi) \div 2
         IN SumSqDev(s, m, lo, mid) + SumSqDev(s, m, mid + 1, hi)

\* Series.rolling(w).std(): sample standard deviation (ddof = 1).
RollingStd(s, w) ==
    AsSeries([i \in 1..Len(s) |->
        IF i < w THEN NaN
        ELSE IF HasNaN(s, i - w + 1, i) THEN NaN
        ELSE LET m == SumRange(s, i - w + 1, i) \div w
                 v == SumSqDev(s, m, i - w + 1, i) \div (w - 1)
             IN Isqrt(v, 0, v)])

\* Series.ewm(span, adjust=False).mean(): y[1] = x[1],
\* y[i] = (1 - a) y[i-1] + a x[i] with a = 2 / (span + 1).
RECURSIVE EwmFrom(_, _, _, _, _)
\* y[lo..hi], y[lo - 1] = prev given, computed by halves
EwmFrom(s, span, prev, lo, hi) ==
    IF lo > hi THEN << >>
    ELSE IF lo = hi THEN << ((span - 1) * prev + 2 * s[lo]) \div (span + 1) >>
    ELSE LET mid == (lo + hi) \div 2
             left == EwmFrom(s, span, prev, lo, mid)
         IN left \o EwmFrom(s, span, left[Len(left)], mid + 1, hi)

Ewm(s, span, n) ==
    IF n = 0 THEN << >> ELSE << s[1] >> \o EwmFrom(s, span, s[1], 2, n)

\* ------------------------------------------------------- the indicators
calculate_rsi(data, window) ==
    LET delta == Diff(data)
        up == AsSeries([i \in 1..Len(data) |->
                 IF IsNaN(delta[i]) THEN NaN ELSE IF delta[i] < 0 THEN 0 ELSE delta[i]])
        down == AsSeries([i \in 1..Len(data) |->
                 IF IsNaN(delta[i]) THEN NaN ELSE IF delta[i] > 0 THEN 0 ELSE delta[i]])
        roll_up == RollingMean(up, window)
        roll_dn == RollingMean(down, window)
    IN AsSeries([i \in 1..Len(data) |->
          IF IsNaN(roll_up[i]) \/ IsNaN(roll_dn[i]) THEN NaN
          ELSE LET roll_down == Abs(roll_dn[i])
               IN IF roll_down = 0
                  THEN (IF roll_up[i] = 0 THEN NaN ELSE 100 * SCALE)
                  ELSE LET RS == (roll_up[i] * SCALE) \div roll_down
                       IN 100 * SCALE - (100 * SCALE * SCALE) \div (SCALE + RS)])

\* the rolling mean taken over the rows there are (min_periods = 1)
calculate_ma_partial(data, window) ==
    AsSeries([i \in 1..Len(data) |->
        LET lo == Max2(1, i - window + 1)
        IN SumRange(data, lo, i) \div (i - lo + 1)])

calculate_ma(data, window) == RollingMean(data, window)

calculate_macd(data, window) ==
    LET ema12 == Ewm(data, window, Len(data))
        ema26 == Ewm(data, MacdSlowSpan, Len(data))
    IN AsSeries([i \in 1..Len(data) |-> ema12[i] - ema26[i]])

calculate_macd_signal(data, window) ==
    LET macd == calculate_macd(data, MacdWindow)
    IN Ewm(macd, window, Len(data))

calculate_bb_upper(data, window) ==
    LET ma == calculate_ma(data, window)
        std == RollingStd(data, window)
    IN AsSeries([i \in 1..Len(data) |-> IF IsNaN(ma[i]) \/ IsNaN(std[i]) THEN NaN ELSE ma[i] + 2 * std[i]])

calculate_bb_middle(data, window) == calculate_ma(data, window)

calculate_bb_lower(data, window) ==
    LET ma == calculate_ma(data, window)
        std == RollingStd(data, window)
    IN AsSeries([i \in 1..Len(data) |-> IF IsNaN(ma[i]) \/ IsNaN(std[i]) THEN NaN ELSE ma[i] - 2 * std[i]])

calculate_adx(high, low, close, window) ==
    LET n == Len(close)
        prev == Shift(close)
        \* max(axis=1) skips the NaN of the first row
        tr == AsSeries([i \in 1..n |->
                 IF IsNaN(prev[i]) THEN high[i] - low[i]
                 ELSE Max2(high[i] - low[i],
                           Max2(Abs(high[i] - prev[i]), Abs(low[i] - prev[i])))])
        dh == Diff(high)
        dl == Diff(low)
        plus_dm == AsSeries([i \in 1..n |-> IF IsNaN(dh[i]) THEN NaN ELSE Max2(dh[i], 0)])
        minus_dm == AsSeries([i \in 1..n |-> IF IsNaN(dl[i]) THEN NaN ELSE Max2(0 - dl[i], 0)])
        tr_smooth == RollingMean(tr, window)
        pm == RollingMean(plus_dm, window)
        mm == RollingMean(minus_dm, window)
        plus_di == AsSeries([i \in 1..n |->
                      LET q == FDiv(pm[i], tr_smooth[i]) IN IF IsNaN(q) THEN NaN ELSE 100 * q])
        minus_di == AsSeries([i \in 1..n |->
                      LET q == FDiv(mm[i], tr_smooth[i]) IN IF IsNaN(q) THEN NaN ELSE 100 * q])
        dx == AsSeries([i \in 1..n |->
                 IF IsNaN(plus_di[i]) \/ IsNaN(minus_di[i]) THEN NaN
                 ELSE LET q == FDiv(Abs(plus_di[i] - minus_di[i]), plus_di[i] + minus_di[i])
                      IN IF IsNaN(q) THEN NaN ELSE 100 * q])
    IN RollingMean(dx, window)

\* DataFrame.fillna(0) on one cell
fillna(x) == IF IsNaN(x) THEN 0 ELSE x

Col(data, f) == AsSeries([i \in 1..Len(data) |-> data[i][f] * SCALE])

\* calculate_indicators: data is a sequence of bars; the result has one row
\* per bar, in the same order, the bar's columns kept.
calculate_indicators(data) ==
    LET close == Col(data, "close")
        high == Col(data, "high")
        low == Col(data, "low")
        rsi == calculate_rsi(close, RsiWindow)
        ma50 == calculate_ma(close, Ma50Window)
        ma200 == calculate_ma(close, Ma200Window)
        macd == calculate_macd(close, MacdWindow)
        macd_signal == calculate_macd_signal(close, MacdSignalWindow)
        bb_upper == calculate_bb_upper(close, BbWindow)
        bb_middle == calculate_bb_middle(close, BbWindow)
        bb_lower == calculate_bb_lower(close, BbWindow)
        adx == calculate_adx(high, low, close, AdxWindow)
    IN [i \in 1..Len(data) |->
          [timestamp |-> data[i].timestamp,
           close |-> data[i].close, open |-> data[i].open,
           high |-> data[i].high, low |-> data[i].low, volume |-> data[i].volume,
           rsi |-> fillna(rsi[i]), ma50 |-> fillna(ma50[i]), ma200 |-> fillna(ma200[i]),
           macd |-> fillna(macd[i]), macd_signal |-> fillna(macd_signal[i]),
           bb_upper |-> fillna(bb_upper[i]), bb_middle |-> fillna(bb_middle[i]),
           bb_lower |-> fillna(bb_lower[i]), adx |-> fillna(adx[i])]]

\* ------------------------------------------------------------ the program
VARIABLES
    clock,            \* [today, afterClose]: the wall clock, US/Eastern
    tradingDays,      \* provider: the days that have a daily bar
    rev,              \* provider: 1 once it has revised the prices it serves, else 0
    page_rows,        \* provider: the bars it puts on one page of an answer
    store,            \* stock_data: symbol -> set of rows, key (symbol, timestamp)
    pc,               \* "idle" | "loop" | "done" | "crashed"
    mode,             \* "full" | "incremental"
    tickers,          \* the sorted ticker list of the run
    idx,              \* position of the for loop in tickers
    tickers_updated,  \* the global counter of insert_data
    incDone,          \* symbol -> the last thing that happened to it was a
                      \* failure-free incremental pass, nothing changed since
    db_down,          \* the store refused connections when the run started
    last,             \* what the last pass over a ticker did (observation);
                      \* fetch_fault: the provider failed the pass's download,
                      \* replaced: its write met a different row of the same key
    bars,             \* a bar series handed to a function on its own
    res               \* [fn, window, args, out, appended]: the function
                      \* applied last on its own, and what it returned

vars == << clock, tradingDays, rev, page_rows, store, pc, mode, tickers, idx,
           tickers_updated, incDone, db_down, last, bars, res >>

\* the variables of a run of the ingester, and those of a function applied
\* on its own
runVars == << clock, tradingDays, rev, page_rows, pc, mode, tickers, idx,
              tickers_updated, incDone, db_down, last >>
callVars == << bars, res >>

EpochDay == 0

Date(ts) == ts \div DayTicks
Midnight(day) == day * DayTicks

SymIdx(sym) == CHOOSE i \in 1..Len(SYMBOLS) : SYMBOLS[i] = sym
Price(sym, day, r) == 10 + ((3 * day * day + 4 * SymIdx(sym) + 5 * r) % 7)

\* The daily aggregate the provider serves for (sym, day) at revision r.
ApiBar(sym, day, r) ==
    LET p == Price(sym, day, r)
    IN [timestamp |-> day * DayTicks + BarTick, close |-> p, open |-> p - 1,
        high |-> p + 2, low |-> p - 2, volume |-> 100 * day]

BarColumns == {"timestamp", "close", "open", "high", "low", "volume"}
BarOf(row) == [f \in BarColumns |-> row[f]]

RECURSIVE SeqOfDays(_, _)
\* the days lo..hi of S, ascending
SeqOfDays(S, lo) ==
    IF \A d \in S : d < lo THEN << >>
    ELSE LET d == CHOOSE x \in S : x >= lo /\ \A y \in S : y >= lo => x <= y
         IN << d >> \o SeqOfDays(S, d + 1)

\* "limit": 50000 of polygon_data_params
PageLimit == 50000

\* The provider's answer to one request for the daily bars of [start_date,
\* end_date]: the first page of them, ascending ("sort": "asc"), and whether
\* a next_url leads on to more.
FirstPage(ticker, start_date, end_date) ==
    LET ds == SeqOfDays({d \in tradingDays : d >= start_date /\ d <= end_date}, 0)
        n == IF Len(ds) <= page_rows THEN Len(ds) ELSE page_rows
    IN [results |-> [i \in 1..n |-> ApiBar(ticker, ds[i], rev)],
        next_url |-> n < Len(ds)]

\* the download without its except clause
download_unguarded(ticker, start_date, end_date, fail) ==
    IF fail THEN [raised |-> TRUE, df |-> << >>]
    ELSE [raised |-> FALSE, df |-> FirstPage(ticker, start_date, end_date).results]

\* download_daily_ticker_info: one request, and the results of its answer;
\* a next_url in the answer is not read.  A RequestException is caught and
\* gives the empty frame.
download_daily_ticker_info(ticker, start_date, end_date, fail) ==
    IF fail THEN [raised |-> FALSE, df |-> << >>]
    ELSE [raised |-> FALSE, df |-> FirstPage(ticker, start_date, end_date).results]

RECURSIVE RowsDesc(_)
\* SELECT ... WHERE symbol = %s ORDER BY timestamp DESC
RowsDesc(table) ==
    IF table = {} THEN << >>
    ELSE LET m == CHOOSE r \in table : \A q \in table : q.timestamp <= r.timestamp
         IN << m >> \o RowsDesc(table \ {m})

HistFailures == {"none", "connect", "query"}

\* get_historical_data.  A failed query is caught and gives the empty frame.
\* A failed connect is caught too, but then the finally clause closes db,
\* which was never bound: the UnboundLocalError replaces the return.
get_historical_data(table, fail) ==
    IF fail = "connect" THEN [raised |-> TRUE, df |-> << >>]
    ELSE IF fail = "query" THEN [raised |-> FALSE, df |-> << >>]
    ELSE [raised |-> FALSE, df |-> RowsDesc(table)]

\* INSERT IGNORE: a row whose key exists is left as it is
UpsertIgnore(table, row) ==
    IF \E r \in table : r.timestamp = row.timestamp THEN table ELSE table \cup {row}

\* INSERT ... ON DUPLICATE KEY UPDATE of one row, all columns overwritten
Upsert(table, row) == {r \in table : r.timestamp # row.timestamp} \cup {row}

RECURSIVE ExecuteRange(_, _, _, _)
\* cursor.execute of rows lo..hi in their order, taken by halves (the test
\* on the first half has it computed before the second half starts)
ExecuteRange(table, df, lo, hi) ==
    IF lo > hi THEN table
    ELSE IF lo = hi THEN Upsert(table, df[lo])
    ELSE LET mid == (lo + hi) \div 2
             first == ExecuteRange(table, df, lo, mid)
         IN IF first = {} THEN ExecuteRange({}, df, mid + 1, hi)
            ELSE ExecuteRange(first, df, mid + 1, hi)

\* the connection's view after cursor.execute of rows 1..k
ExecuteRows(table, df, k) == ExecuteRange(table, df, 1, k)

NoFault == [kind |-> "none", at |-> 0]

\* what the store may answer a write of n rows with: no fault, a refused
\* connection, a failed execute (at the first row, or at the last), a failed
\* commit
InsertFailures(n) ==
    {NoFault, [kind |-> "connect", at |-> 0],
     [kind |-> "commit", at |-> 0]} \cup {[kind |-> "execute", at |-> k] : k \in {1, n}}

\* insert_data on a connection that commits every statement as it runs
insert_data_autocommit(table, df, fail) ==
    IF Len(df) = 0
    THEN [table |-> table, rows_updated |-> 0, counted |-> 0, outcome |-> "empty_frame"]
    ELSE IF fail.kind = "connect"
    THEN [table |-> table, rows_updated |-> 0, counted |-> 0, outcome |-> "insert_connect_failed"]
    ELSE IF fail.kind = "execute" /\ fail.at <= Len(df)
    THEN [table |-> ExecuteRows(table, df, fail.at - 1), rows_updated |-> fail.at - 1,
          counted |-> 0, outcome |-> "insert_execute_failed"]
    ELSE IF fail.kind = "commit"
    THEN [table |-> ExecuteRows(table, df, Len(df)), rows_updated |-> Len(df),
          counted |-> 0, outcome |-> "insert_commit_failed"]
    ELSE [table |-> ExecuteRows(table, df, Len(df)), rows_updated |-> Len(df),
          counted |-> 1, outcome |-> "written"]

\* insert_data counting the ticker once its rows are executed, before the
\* commit has answered
insert_data_counts_executed(table, df, fail) ==
    IF Len(df) = 0
    THEN [table |-> table, rows_updated |-> 0, counted |-> 0, outcome |-> "empty_frame"]
    ELSE IF fail.kind = "connect"
    THEN [table |-> table, rows_updated |-> 0, counted |-> 0, outcome |-> "insert_connect_failed"]
    ELSE IF fail.kind = "execute" /\ fail.at <= Len(df)
    THEN [table |-> table, rows_updated |-> fail.at - 1, counted |-> 0,
          outcome |-> "insert_execute_failed"]
    ELSE IF fail.kind = "commit"
    THEN [table |-> table, rows_updated |-> Len(df), counted |-> 1,
          outcome |-> "insert_commit_failed"]
    ELSE [table |-> ExecuteRows(table, df, Len(df)), rows_updated |-> Len(df),
          counted |-> 1, outcome |-> "written"]

\* insert_data on a non-empty frame: rows are executed one by one inside one
\* transaction (MySQLdb leaves autocommit off), db.commit() publishes them
\* and counts the ticker; an exception is caught and the connection closed
\* without a commit, which rolls the transaction back.
insert_data(table, df, fail) ==
    IF Len(df) = 0
    THEN [table |-> table, rows_updated |-> 0, counted |-> 0, outcome |-> "empty_frame"]
    ELSE IF fail.kind = "connect"
    THEN [table |-> table, rows_updated |-> 0, counted |-> 0, outcome |-> "insert_connect_failed"]
    ELSE IF fail.kind = "execute" /\ fail.at <= Len(df)
    THEN [table |-> table, rows_updated |-> fail.at - 1, counted |-> 0,
          outcome |-> "insert_execute_failed"]
    ELSE IF fail.kind = "commit"
    THEN [table |-> table, rows_updated |-> Len(df), counted |-> 0,
          outcome |-> "insert_commit_failed"]
    ELSE [table |-> ExecuteRows(table, df, Len(df)), rows_updated |-> Len(df),
          counted |-> 1, outcome |-> "written"]

\* --------------------------------------------------------------- main
\* what one pass of the for loop over a ticker did
Pass(raised, table, outcome, fetch_calls, max_timestamp, all_data, new_rows, rows_updated, counted) ==
    [raised |-> raised, table |-> table, outcome |-> outcome,
     fetch_calls |-> fetch_calls, max_timestamp |-> max_timestamp,
     all_data |-> all_data, new_rows |-> new_rows,
     rows_updated |-> rows_updated, counted |-> counted]

\* no function has been applied on its own
NoRes == [fn |-> "", window |-> 0, args |-> << >>, out |-> << >>, appended |-> 0]

\* the committed frame df met, in table, a row of one of its keys that
\* differed from its own
Replaced(table, df, outcome) ==
    /\ outcome = "written"
    /\ \E i \in 1..Len(df) : \E q \in table :
          q.timestamp = df[i].timestamp /\ q # df[i]

NoPass == [sym |-> "", mode |-> "", end_date |-> 0, again |-> FALSE, fetch_fault |-> FALSE,
           replaced |-> FALSE]
            @@ Pass(FALSE, {}, "", 0, NaN, << >>, << >>, 0, 0)

\* end_date: today once it is 16:30 US/Eastern, else yesterday
EndDate(c) == IF c.afterClose THEN c.today ELSE c.today - 1

\* historical_data['timestamp'].max()
MaxTimestamp(df) ==
    IF Len(df) = 0 THEN NaN
    ELSE LET i == CHOOSE i \in 1..Len(df) : \A j \in 1..Len(df) : df[j].timestamp <= df[i].timestamp
         IN df[i].timestamp

\* the two datetimes compared whole, the time of day included
UpToDateSameInstant(end_date_dt, max_timestamp) == end_date_dt = max_timestamp

\* "if max_timestamp date == end_date date then nothing to do this run"
UpToDate(end_date_dt, max_timestamp) == Date(end_date_dt) = Date(max_timestamp)

\* the fetch start date, as the string handed to the provider
StartDateStr(max_timestamp, end_date) ==
    LET start_date == IF IsNaN(max_timestamp) THEN Midnight(EpochDay)
                      ELSE max_timestamp + DayTicks
    IN IF start_date > Midnight(end_date) THEN end_date ELSE Date(start_date)

RemoveAt(s, i) == SubSeq(s, 1, i - 1) \o SubSeq(s, i + 1, Len(s))

RECURSIVE sort_values(_)
\* DataFrame.sort_values(by='timestamp'): the default sort is not stable, so
\* rows of equal timestamp come out in either order.  The set of results.
sort_values(s) ==
    IF Len(s) = 0 THEN {<< >>}
    ELSE LET firsts == {i \in 1..Len(s) :
                          \A j \in 1..Len(s) : s[i].timestamp <= s[j].timestamp}
         IN UNION {{<< s[i] >> \o t : t \in sort_values(RemoveAt(s, i))} : i \in firsts}

\* the indicators computed over the downloaded bars alone
AllDataNewOnly(historical_data, new_data) == sort_values(new_data)

\* pd.concat([historical_data[[bar columns]], new_data], ignore_index=True)
\* and the sort: every series main may hand to calculate_indicators
AllData(historical_data, new_data) ==
    sort_values([i \in 1..Len(historical_data) |-> BarOf(historical_data[i])] \o new_data)

\* the filter taken with >=
NewRowsInclusive(all_data, max_timestamp) ==
    LET IsNew(r) == r.timestamp >= max_timestamp
    IN SelectSeq(all_data, IsNew)

\* no filter: the whole recomputed series is written back
NewRowsAll(all_data, max_timestamp) == all_data

\* all_data[all_data['timestamp'] > max_timestamp]
NewRows(all_data, max_timestamp) ==
    LET IsNew(r) == r.timestamp > max_timestamp
    IN SelectSeq(all_data, IsNew)

\* One pass of the incremental loop body over ticker: the set of its possible
\* results, over the orders the sort may give to equal timestamps and over
\* the faults the store may (or may not) answer insert_data with.
incremental_ticker(table, ticker, end_date, hf, ff) ==
    LET h == get_historical_data(table, hf)
    IN IF h.raised
       THEN {Pass(TRUE, table, "history_connect_failed", 0, NaN, << >>, << >>, 0, 0)}
       ELSE IF Len(h.df) = 0
       THEN {Pass(FALSE, table,
                  IF hf = "query" THEN "history_query_failed" ELSE "no_history",
                  0, NaN, << >>, << >>, 0, 0)}
       ELSE LET max_timestamp == MaxTimestamp(h.df)
                start_date_str == StartDateStr(max_timestamp, end_date)
            IN IF UpToDate(Midnight(end_date), max_timestamp)
               THEN {Pass(FALSE, table, "up_to_date", 0, max_timestamp, << >>, << >>, 0, 0)}
               ELSE LET d == download_daily_ticker_info(ticker, start_date_str, end_date, ff)
                    IN IF d.raised
                       THEN {Pass(TRUE, table, "fetch_raised", 1, max_timestamp,
                                  << >>, << >>, 0, 0)}
                       ELSE IF Len(d.df) = 0
                       THEN {Pass(FALSE, table,
                                  IF ff THEN "fetch_failed" ELSE "no_new_data",
                                  1, max_timestamp, << >>, << >>, 0, 0)}
                       ELSE UNION {
                              LET new_rows == NewRows(calculate_indicators(all_data),
                                                      max_timestamp)
                              IN {LET w == insert_data(table, new_rows, wf)
                                  IN Pass(FALSE, w.table,
                                          IF Len(new_rows) = 0 THEN "no_new_rows"
                                          ELSE w.outcome,
                                          1, max_timestamp, all_data, new_rows,
                                          w.rows_updated, w.counted)
                                  : wf \in InsertFailures(Len(new_rows))}
                              : all_data \in AllData(h.df, d.df)}

\* One pass of the full loop body over ticker: the set of its possible
\* results over the faults of the store.
full_ticker(table, ticker, today, ff) ==
    LET d == download_daily_ticker_info(ticker, EpochDay, today, ff)
    IN IF d.raised
       THEN {Pass(TRUE, table, "fetch_raised", 1, NaN, << >>, << >>, 0, 0)}
       ELSE IF Len(d.df) = 0
       THEN {Pass(FALSE, table, IF ff THEN "fetch_failed" ELSE "no_new_data",
                  1, NaN, << >>, << >>, 0, 0)}
       ELSE LET data == calculate_indicators(d.df)
            IN {LET w == insert_data(table, data, wf)
                IN Pass(FALSE, w.table, w.outcome, 1, NaN, d.df, data,
                        w.rows_updated, w.counted)
                : wf \in InsertFailures(Len(data))}

\* download_all_tickers: the pages fetched before an error, one ticker a page
download_all_tickers(pages_ok) == SubSeq(SYMBOLS, 1, pages_ok)

\* get_tickers; with scope 'database' the connect is not guarded
get_tickers(scope, symbol, pages_ok, dbfail) ==
    IF scope = "all" THEN [raised |-> FALSE, tickers |-> download_all_tickers(pages_ok)]
    ELSE IF scope = "database"
    THEN (IF dbfail THEN [raised |-> TRUE, tickers |-> << >>]
          ELSE [raised |-> FALSE,
                tickers |-> SelectSeq(SYMBOLS, LAMBDA t : store[t] # {})])
    ELSE [raised |-> FALSE, tickers |-> << symbol >>]

\* the fault one pass meets before its write, if any: a pass ends at its first
PassFaults ==
    {[hf |-> "none", ff |-> FALSE], [hf |-> "connect", ff |-> FALSE],
     [hf |-> "query", ff |-> FALSE], [hf |-> "none", ff |-> TRUE]}

CleanOutcomes == {"no_history", "up_to_date", "no_new_data", "no_new_rows", "written"}

Init ==
    /\ clock = [today |-> 1, afterClose |-> FALSE]
    /\ tradingDays \in SUBSET Days
    /\ rev = 0
    /\ page_rows = PageLimit
    /\ store = [t \in SymbolSet |-> {}]
    /\ pc = "idle"
    /\ mode = ""
    /\ tickers = << >>
    /\ idx = 0
    /\ tickers_updated = 0
    /\ incDone = [t \in SymbolSet |-> FALSE]
    /\ db_down = FALSE
    /\ last = NoPass
    /\ bars = << >>
    /\ res = NoRes

\* main up to the loop: the arguments, get_tickers, "No tickers to process."
Start ==
    /\ pc = "idle"
    /\ \E m \in {"full", "incremental"}, scope \in {"all", "database", "symbol"},
          symbol \in SymbolSet, pages_ok \in 0..Len(SYMBOLS), dbfail \in BOOLEAN :
          LET g == get_tickers(scope, symbol, pages_ok, dbfail)
          IN /\ pc' = IF g.raised THEN "crashed"
                      ELSE IF Len(g.tickers) = 0 THEN "idle" ELSE "loop"
             /\ mode' = IF g.raised \/ Len(g.tickers) = 0 THEN "" ELSE m
             /\ tickers' = IF g.raised THEN << >> ELSE g.tickers
             /\ idx' = IF g.raised \/ Len(g.tickers) = 0 THEN 0 ELSE 1
             /\ db_down' = (dbfail /\ pc' # "idle")
    /\ tickers_updated' = 0
    /\ UNCHANGED << clock, tradingDays, page_rows, rev, store, incDone, last, callVars >>

ProcessFull ==
    /\ pc = "loop" /\ mode = "full" /\ idx <= Len(tickers)
    /\ \E ff \in BOOLEAN :
          LET ticker == tickers[idx]
          IN \E p \in full_ticker(store[ticker], ticker, clock.today, ff) :
                /\ store' = [store EXCEPT ![ticker] = p.table]
                /\ tickers_updated' = tickers_updated + p.counted
                /\ pc' = IF p.raised THEN "crashed" ELSE "loop"
                /\ idx' = IF p.raised THEN idx ELSE idx + 1
                /\ incDone' = [incDone EXCEPT ![ticker] = FALSE]
                /\ last' = [sym |-> ticker, mode |-> mode, end_date |-> clock.today,
                            again |-> FALSE,
                            fetch_fault |-> ff /\ p.fetch_calls = 1,
                            replaced |-> Replaced(store[ticker], p.new_rows, p.outcome)]
                              @@ [p EXCEPT !.table = {}]
    /\ UNCHANGED << clock, tradingDays, page_rows, rev, mode, tickers, db_down, callVars >>

ProcessIncremental ==
    /\ pc = "loop" /\ mode = "incremental" /\ idx <= Len(tickers)
    /\ \E f \in PassFaults :
          LET ticker == tickers[idx]
          IN \E p \in incremental_ticker(store[ticker], ticker, EndDate(clock), f.hf, f.ff) :
                /\ store' = [store EXCEPT ![ticker] = p.table]
                /\ tickers_updated' = tickers_updated + p.counted
                /\ pc' = IF p.raised THEN "crashed" ELSE "loop"
                /\ idx' = IF p.raised THEN idx ELSE idx + 1
                /\ incDone' = [incDone EXCEPT ![ticker] = p.outcome \in CleanOutcomes]
                /\ last' = [sym |-> ticker, mode |-> mode, end_date |-> EndDate(clock),
                            again |-> incDone[ticker],
                            fetch_fault |-> f.ff /\ p.fetch_calls = 1,
                            replaced |-> Replaced(store[ticker], p.new_rows, p.outcome)]
                              @@ [p EXCEPT !.table = {}]
    /\ UNCHANGED << clock, tradingDays, page_rows, rev, mode, tickers, db_down, callVars >>

\* the end-of-run summary: "N tickers updated out of M total"
Finish ==
    /\ pc = "loop" /\ idx > Len(tickers)
    /\ pc' = "done"
    /\ UNCHANGED << clock, tradingDays, page_rows, rev, store, mode, tickers, idx,
                    tickers_updated, incDone, db_down, last, callVars >>

\* the process ends (after the summary, or on the uncaught exception)
Exit ==
    /\ pc \in {"done", "crashed"}
    /\ pc' = "idle"
    /\ mode' = "" /\ tickers' = << >> /\ idx' = 0 /\ tickers_updated' = 0
    /\ db_down' = FALSE
    /\ last' = NoPass
    /\ UNCHANGED << clock, tradingDays, page_rows, rev, store, incDone, callVars >>

\* time passes between runs
Tick ==
    /\ pc = "idle"
    /\ IF clock.afterClose
       THEN /\ clock.today < MaxDay
            /\ clock' = [today |-> clock.today + 1, afterClose |-> FALSE]
       ELSE clock' = [clock EXCEPT !.afterClose = TRUE]
    /\ incDone' = [t \in SymbolSet |-> FALSE]
    /\ UNCHANGED << tradingDays, page_rows, rev, store, pc, mode, tickers, idx,
                    tickers_updated, db_down, last, callVars >>

\* the provider revises the prices it serves (adjusted = true)
Revise ==
    /\ pc = "idle"
    /\ rev = 0
    /\ rev' = 1
    /\ incDone' = [t \in SymbolSet |-> FALSE]
    /\ UNCHANGED << clock, tradingDays, page_rows, store, pc, mode, tickers, idx,
                    tickers_updated, db_down, last, callVars >>

Next == Start \/ ProcessFull \/ ProcessIncremental \/ Finish \/ Exit \/ Tick \/ Revise

Spec == Init /\ [][Next]_vars

\* ------------------------------------------- the functions on their own
MaxBars == 220
MaxShape == 5
MaxAppend == 1

\* the lengths of the series handed to the engine: around every window
Lengths == {1, RsiWindow - 1, RsiWindow, RsiWindow + 1, RsiWindow + 2,
            BbWindow - 1, BbWindow, BbWindow + 1,
            Ma50Window - 1, Ma50Window, Ma50Window + 1,
            Ma200Window - 1, Ma200Window, MaxBars}
Shapes == 0..MaxShape

\* the close of bar i of a series of shape k: flat, rising, falling, and
\* series that wander
Close(k, i) ==
    IF k = 0 THEN 20
    ELSE IF k = 1 THEN 20 + i
    ELSE IF k = 2 THEN 300 - i
    ELSE 20 + ((k * i * i + 3 * i) % (k + 4))

BarAt(i, c) ==
    [timestamp |-> i * DayTicks + BarTick, close |-> c, open |-> c - 1,
     high |-> c + 2, low |-> c - 2, volume |-> 100 * i]

Series(k, n) == [i \in 1..n |-> BarAt(i, Close(k, i))]
InputSeries == {Series(k, n) : k \in Shapes, n \in Lengths}

Result(fn, window, out, appended) ==
    [fn |-> fn, window |-> window, args |-> << >>, out |-> out, appended |-> appended]

\* no run of the ingester is going on
NoRun ==
    /\ clock = [today |-> 1, afterClose |-> FALSE]
    /\ rev = 0
    /\ pc = "idle"
    /\ mode = ""
    /\ tickers = << >>
    /\ idx = 0
    /\ tickers_updated = 0
    /\ incDone = [t \in SymbolSet |-> FALSE]
    /\ db_down = FALSE
    /\ last = NoPass

InitEngine ==
    /\ NoRun
    /\ tradingDays = {}
    /\ page_rows = PageLimit
    /\ store = [t \in SymbolSet |-> {}]
    /\ bars \in InputSeries
    /\ res = NoRes

\* calculate_rsi(df['close'], indicators['rsi']['window'])
ApplyRsi ==
    /\ res = NoRes
    /\ res' = Result("calculate_rsi", RsiWindow,
                     calculate_rsi(Col(bars, "close"), RsiWindow), 0)
    /\ UNCHANGED << runVars, store, bars >>

\* calculate_ma(df['close'], w) for ma50 and ma200
ApplyMa ==
    /\ res = NoRes
    /\ \E w \in {Ma50Window, Ma200Window} :
          res' = Result("calculate_ma", w, calculate_ma(Col(bars, "close"), w), 0)
    /\ UNCHANGED << runVars, store, bars >>

\* calculate_bb_middle(df['close'], indicators['bb_middle']['window'])
ApplyBbMiddle ==
    /\ res = NoRes
    /\ res' = Result("calculate_bb_middle", BbWindow,
                     calculate_bb_middle(Col(bars, "close"), BbWindow), 0)
    /\ UNCHANGED << runVars, store, bars >>

\* calculate_indicators(data)
ApplyIndicators ==
    /\ res = NoRes
    /\ res' = Result("calculate_indicators", 0, calculate_indicators(bars), 0)
    /\ UNCHANGED << runVars, store, bars >>

\* a later bar joins the series and the engine runs over it again
AppendBar ==
    /\ res.fn = "calculate_indicators"
    /\ res.appended < MaxAppend
    /\ \E k \in {1, MaxShape} :
          LET i == Len(bars) + 1
              longer == Append(bars, BarAt(i, Close(k, i)))
          IN /\ bars' = longer
             /\ res' = Result("calculate_indicators", 0, calculate_indicators(longer),
                              res.appended + 1)
    /\ UNCHANGED << runVars, store >>

\* insert_data(ticker, data): the engine's rows are written to the store
Persist ==
    /\ res.fn = "calculate_indicators"
    /\ LET w == insert_data(store[SYMBOLS[1]], res.out, NoFault)
       IN store' = [store EXCEPT ![SYMBOLS[1]] = w.table]
    /\ res' = [res EXCEPT !.fn = "insert_data"]
    /\ UNCHANGED << runVars, bars >>

\* ------------------------------------------------ find-trade-candidates.py
\* the thresholds main hands to the query when no option is given, in fixed
\* point: min and max price, rsilimit, ma50ma200delta (0.3), adx limits,
\* lookbackdays
DefaultArgs ==
    [minclose |-> 2 * SCALE, maxclose |-> 22 * SCALE, rsilimit |-> 30 * SCALE,
     ma50ma200delta |-> (3 * SCALE) \div 10,
     adxminlimit |-> 20 * SCALE, adxmaxlimit |-> 40 * SCALE, lookbackdays |-> 5]

\* thresholds opened as wide as the options allow
WideArgs ==
    [minclose |-> 0, maxclose |-> 1000 * SCALE, rsilimit |-> 100 * SCALE,
     ma50ma200delta |-> 1000 * SCALE,
     adxminlimit |-> 0, adxmaxlimit |-> 100 * SCALE, lookbackdays |-> 5]

ArgSets == {DefaultArgs, WideArgs}
Scopes == {<< SYMBOLS[1] >>, << SYMBOLS[2] >>, SYMBOLS}

\* SQL: x BETWEEN lo AND hi
Between(x, lo, hi) == lo <= x /\ x <= hi

\* NOW(): the screener runs at midnight after the latest persisted bar
Now(tables) ==
    LET stamps == UNION {{r.timestamp : r \in tables[t]} : t \in SymbolSet}
    IN Midnight(1 + Date(CHOOSE m \in stamps : \A x \in stamps : x <= m))

\* the query with its RSI condition taken strictly
find_trading_candidates_rsi_strict(tables, symbols, a, now) ==
    LET Where(r) ==
            /\ Between(r.close * SCALE, a.minclose, a.maxclose)
            /\ r.rsi < a.rsilimit
            /\ r.ma50 > r.ma200
            /\ r.ma50 - r.ma200 <= a.ma50ma200delta
            /\ r.macd > r.macd_signal
            /\ r.close * SCALE < r.bb_middle
            /\ Between(r.adx, a.adxminlimit, a.adxmaxlimit)
            /\ r.timestamp >= now - a.lookbackdays * DayTicks
    IN UNION {{[symbol |-> t, row |-> r] : r \in {x \in tables[t] : Where(x)}}
              : t \in ToSet(symbols)}

\* find_trading_candidates: the rows the SELECT returns, each with its
\* symbol (a row holds close unscaled and the indicators in fixed point)
find_trading_candidates(tables, symbols, a, now) ==
    LET Where(r) ==
            /\ Between(r.close * SCALE, a.minclose, a.maxclose)
            /\ r.rsi <= a.rsilimit
            /\ r.ma50 > r.ma200
            /\ r.ma50 - r.ma200 <= a.ma50ma200delta
            /\ r.macd > r.macd_signal
            /\ r.close * SCALE < r.bb_middle
            /\ Between(r.adx, a.adxminlimit, a.adxmaxlimit)
            /\ r.timestamp >= now - a.lookbackdays * DayTicks
    IN UNION {{[symbol |-> t, row |-> r] : r \in {x \in tables[t] : Where(x)}}
              : t \in ToSet(symbols)}

\* the row of the screener's example, on the day before the screener runs
ExampleRow ==
    [timestamp |-> (DefaultArgs.lookbackdays + 2) * DayTicks + BarTick,
     close |-> 10, open |-> 10, high |-> 11, low |-> 9, volume |-> 100,
     rsi |-> 25 * SCALE, ma50 |-> (52 * SCALE) \div 10, ma200 |-> 5 * SCALE,
     macd |-> SCALE \div 10, macd_signal |-> SCALE \div 20,
     bb_upper |-> 12 * SCALE, bb_middle |-> (105 * SCALE) \div 10,
     bb_lower |-> 9 * SCALE, adx |-> 25 * SCALE]

\* the values a column of the example is changed to: on, and next to, the
\* thresholds
Variants ==
    [close |-> {1, 2, 22, 23},
     rsi |-> {30 * SCALE, 30 * SCALE + 1, 35 * SCALE},
     ma50 |-> {5 * SCALE, 5 * SCALE + 30, 5 * SCALE + 31},
     macd |-> {SCALE \div 20, SCALE \div 20 - 1},
     bb_middle |-> {10 * SCALE, 10 * SCALE + 1},
     adx |-> {20 * SCALE - 1, 20 * SCALE, 40 * SCALE, 40 * SCALE + 1},
     timestamp |-> {3 * DayTicks + BarTick, 2 * DayTicks + BarTick, DayTicks + BarTick}]

\* the example, and the example with one column changed
InputRows ==
    {ExampleRow} \cup
    UNION {{[ExampleRow EXCEPT ![f] = v] : v \in Variants[f]} : f \in DOMAIN Variants}

InitScreener ==
    /\ NoRun
    /\ tradingDays = {}
    /\ page_rows = PageLimit
    /\ store \in [SymbolSet -> {{r} : r \in InputRows}]
    /\ bars = << >>
    /\ res = NoRes

\* main of find-trade-candidates.py up to the query
FindCandidates ==
    /\ res.fn # "find_trading_candidates"
    /\ \E t \in SymbolSet : store[t] # {}
    /\ \E symbols \in Scopes, a \in ArgSets :
          res' = [fn |-> "find_trading_candidates", window |-> 0,
                  args |-> [tickers |-> symbols, a |-> a, now |-> Now(store)],
                  out |-> find_trading_candidates(store, symbols, a, Now(store)),
                  appended |-> res.appended]
    /\ UNCHANGED << runVars, store, bars >>

NextScreener == FindCandidates

\* the engine on its own, its rows persisted, the screener over them
NextEngine ==
    \/ ApplyRsi \/ ApplyMa \/ ApplyBbMiddle \/ ApplyIndicators \/ AppendBar
    \/ Persist \/ FindCandidates

SpecEngine == InitEngine /\ [][NextEngine]_vars

SpecScreener == InitScreener /\ [][NextScreener]_vars

\* ------------------------------------------------ the download on its own
\* the provider may put fewer bars on a page than the limit asked for
InitFetch ==
    /\ NoRun
    /\ tradingDays \in SUBSET Days
    /\ page_rows \in 1..MaxDay
    /\ store = [t \in SymbolSet |-> {}]
    /\ bars = << >>
    /\ res = NoRes

\* download_daily_ticker_info(ticker, start_date, end_date)
Fetch ==
    /\ res = NoRes
    /\ \E ticker \in SymbolSet, start_date \in EpochDay..MaxDay, end_date \in Days,
          fail \in BOOLEAN :
          res' = [fn |-> "download_daily_ticker_info", window |-> 0,
                  args |-> [ticker |-> ticker, start_date |-> start_date,
                            end_date |-> end_date, fail |-> fail],
                  out |-> download_daily_ticker_info(ticker, start_date, end_date, fail).df,
                  appended |-> 0]
    /\ UNCHANGED << runVars, store, bars >>

NextFetch == Fetch

SpecFetch == InitFetch /\ [][NextFetch]_vars

\* -------------------------------------------------------------- properties
RECURSIVE Ascending(_)
\* the bars of a table, ascending (keys are unique in a table)
Ascending(table) ==
    IF table = {} THEN << >>
    ELSE LET m == CHOOSE r \in table : \A q \in table : r.timestamp <= q.timestamp
         IN << BarOf(m) >> \o Ascending(table \ {m})

HighWater(table) == MaxTimestamp(RowsDesc(table))

\* this step is one pass of the for loop over ticker t
IsPass(t) ==
    /\ pc = "loop" /\ idx <= Len(tickers) /\ tickers[idx] = t
    /\ (idx' # idx \/ pc' # pc)

IsIncPass(t) == IsPass(t) /\ mode = "incremental"

StoreFailures ==
    {"history_connect_failed", "history_query_failed", "insert_connect_failed",
     "insert_execute_failed", "insert_commit_failed"}

C2_NoDrift ==
    \A t \in SymbolSet :
        (pc = "idle" \/ t = last.sym) =>
            store[t] = ToSet(calculate_indicators(Ascending(store[t])))

\* an incremental update has appended rows to a non-empty persisted prefix,
\* and a row it wrote carries a MACD that depends on that prefix
C2_Witness ==
    /\ last.mode = "incremental" /\ last.outcome = "written"
    /\ Len(last.all_data) > Len(last.new_rows)
    /\ \E i \in 1..Len(last.new_rows) :
          /\ last.new_rows[i].macd # 0
          /\ last.new_rows[i] \in store[last.sym]

\* C3 -- frame of an incremental pass: every row it hands to the upsert has a
\* timestamp strictly above the symbol's high-water timestamp at the time the
\* history was loaded; every row persisted before the pass is still there
\* unchanged, and no other symbol's rows change.
C3_IncrementalFrame ==
    [][\A t \in SymbolSet :
          IsIncPass(t) =>
              /\ \A r \in ToSet(last'.new_rows) : r.timestamp > HighWater(store[t])
              /\ \A r \in store[t] : r \in store'[t]
              /\ \A r \in store'[t] \ store[t] : r.timestamp > HighWater(store[t])
              /\ \A o \in SymbolSet \ {t} : store'[o] = store[o]]_vars

\* an incremental pass wrote new rows after a persisted history
C3_Witness ==
    /\ last.mode = "incremental" /\ last.outcome = "written"
    /\ Len(last.all_data) > Len(last.new_rows)
    /\ Cardinality(store[last.sym]) = Len(last.all_data)

\* C4 -- (the claim as stated) an incremental pass over a symbol with no
\* persisted rows fetches [epoch, end date] and upserts the computed series.
C4_EmptyHistoryFullFetch ==
    (last.mode = "incremental" /\ last.outcome = "no_history") =>
        /\ last.fetch_calls = 1
        /\ store[last.sym] =
              ToSet(calculate_indicators(
                  download_daily_ticker_info(last.sym, EpochDay, last.end_date, FALSE).df))

\* C5 -- skip on no new data: an incremental pass over a symbol whose highest
\* persisted timestamp falls on the computed end date issues no fetch and
\* writes nothing.
C5_SkipWhenUpToDate ==
    [][\A t \in SymbolSet :
          (IsIncPass(t) /\ store[t] # {}
              /\ Date(HighWater(store[t])) = EndDate(clock)) =>
              /\ last'.fetch_calls = 0
              /\ last'.rows_updated = 0
              /\ Len(last'.new_rows) = 0
              /\ store' = store]_vars

\* an incremental pass found the symbol up to date and skipped the download
C5_Witness ==
    /\ last.mode = "incremental" /\ last.outcome = "up_to_date"
    /\ Date(last.max_timestamp) = last.end_date
    /\ store[last.sym] # {}

\* C6 -- (the claim as stated) an incremental pass whose fetch start date, the
\* day after the highest persisted date, is later than the end date issues no
\* fetch and writes no row.
C6_SkipWhenStartAfterEnd ==
    (/\ last.mode = "incremental"
     /\ ~IsNaN(last.max_timestamp)
     /\ Date(last.max_timestamp) + 1 > last.end_date) =>
        /\ last.fetch_calls = 0
        /\ last.rows_updated = 0

\* C7 -- (the claim as stated) the series an incremental pass hands to the
\* indicator engine is ascending and holds at most one bar for a timestamp.
C7_SeriesSortedUnique ==
    last.mode = "incremental" =>
        \A i, j \in 1..Len(last.all_data) :
            i < j => last.all_data[i].timestamp < last.all_data[j].timestamp

\* C8 -- (the claim as stated) a store failure during the pass over one symbol
\* writes nothing for it and the run goes on to the next symbol and to the
\* summary.
C8_StoreFailureIsolated ==
    last.outcome \in StoreFailures =>
        /\ pc \in {"loop", "done"}
        /\ last.counted = 0

\* C9 -- a fetch failure during the pass over one symbol, in either mode,
\* writes nothing and the loop moves on to the next ticker of the list.
C9_FetchFailureIsolated ==
    [][\A t \in SymbolSet :
          (IsPass(t) /\ last'.fetch_fault) =>
              /\ store' = store
              /\ last'.rows_updated = 0
              /\ pc' = "loop"
              /\ idx' = idx + 1
              /\ tickers' = tickers]_vars

\* a fetch failed and a later ticker of the list is still to be processed
C9_Witness ==
    /\ last.fetch_fault /\ last.outcome = "fetch_failed"
    /\ pc = "loop" /\ idx <= Len(tickers)
    /\ last.sym = tickers[idx - 1]

\* C10 -- per-symbol write atomicity: after a pass over a symbol, in either
\* mode, either every row of its delta is persisted or the symbol's rows are
\* exactly what they were before the pass.
C10_WriteAtomic ==
    [][\A t \in SymbolSet :
          IsPass(t) =>
              \/ store'[t] = store[t]
              \/ (/\ last'.outcome = "written"
                  /\ \A r \in ToSet(last'.new_rows) : r \in store'[t])]_vars

\* the upsert loop failed after at least one row had been executed
C10_Witness ==
    /\ last.outcome = "insert_execute_failed"
    /\ last.rows_updated >= 1
    /\ Len(last.new_rows) > last.rows_updated

\* C11 -- the 'tickers updated' count: it starts a run at zero, a pass over a
\* symbol raises it by one exactly when the pass committed at least one row,
\* all of them persisted, and leaves it alone otherwise (symbol skipped, no
\* new bars, empty delta, failed write); so at the summary it is the number of
\* symbols written in the run, and it never exceeds the number of tickers.
C11_UpdatedCount ==
    [][/\ \A t \in SymbolSet :
             IsPass(t) =>
                 LET wrote == /\ last'.outcome = "written"
                              /\ Len(last'.new_rows) >= 1
                              /\ \A r \in ToSet(last'.new_rows) : r \in store'[t]
                 IN /\ tickers_updated' = tickers_updated + (IF wrote THEN 1 ELSE 0)
                    /\ ~wrote => store' = store
       /\ (pc = "idle" /\ pc' # "idle") => tickers_updated' = 0
       /\ pc' = "done" => tickers_updated' = tickers_updated
       /\ tickers_updated' <= Len(tickers')
       /\ pc' = "loop" => tickers_updated' <= idx' - 1]_vars

\* a run over two tickers reached its summary having written one of them and
\* met a failed commit on the other
C11_Witness ==
    /\ pc = "done" /\ Len(tickers) = 2
    /\ tickers_updated = 1
    /\ last.outcome = "insert_commit_failed" /\ last.rows_updated >= 1

\* C12 -- (the claim as stated) RSI warm-up: over a series of at least 14
\* bars calculate_rsi with window 14 is unavailable for exactly the first 13
\* rows and numeric from row 14 on.
C12_RsiWarmup ==
    (res.fn = "calculate_rsi" /\ Len(bars) >= RsiWindow) =>
        \A i \in 1..Len(res.out) : IsNaN(res.out[i]) <=> i <= RsiWindow - 1

RECURSIVE TotalClose(_, _)
\* the closes of bars lo..hi of the series, added up
TotalClose(lo, hi) ==
    IF lo > hi THEN 0
    ELSE IF lo = hi THEN bars[lo].close
    ELSE LET mid == (lo + hi) \div 2 IN TotalClose(lo, mid) + TotalClose(mid + 1, hi)

\* C13 -- SMA warm-up: the simple moving average of window w (ma50, ma200,
\* the Bollinger middle of 20) has one value a bar, is unavailable for exactly
\* the first w - 1 rows, and from row w on is the arithmetic mean of the last
\* w closes.
C13_SmaWarmup ==
    res.fn \in {"calculate_ma", "calculate_bb_middle"} =>
        /\ Len(res.out) = Len(bars)
        /\ \A i \in 1..Len(bars) :
              IF i < res.window THEN IsNaN(res.out[i])
              ELSE /\ ~IsNaN(res.out[i])
                   /\ res.out[i] = (SCALE * TotalClose(i - res.window + 1, i)) \div res.window

\* ma200 over the longest series: unavailable in row 199, numeric in rows 200
\* and last, and not the same in both
C13_Witness ==
    /\ res.fn = "calculate_ma" /\ res.window = Ma200Window
    /\ Len(bars) = MaxBars
    /\ IsNaN(res.out[Ma200Window - 1])
    /\ ~IsNaN(res.out[Ma200Window]) /\ ~IsNaN(res.out[MaxBars])
    /\ res.out[Ma200Window] # res.out[MaxBars]

\* C14 -- (the claim as stated) missing-value policy: in the rows
\* calculate_indicators returns, an indicator of a row that has fewer
\* preceding bars than its window needs carries the 'unavailable' marker,
\* which no computed number equals (zero included).
C14_UnavailableMarked ==
    res.fn = "calculate_indicators" =>
        \A i \in 1..Len(res.out) :
            /\ i < RsiWindow => IsNaN(res.out[i].rsi)
            /\ i < BbWindow => IsNaN(res.out[i].bb_middle)
            /\ i < Ma50Window => IsNaN(res.out[i].ma50)
            /\ i < Ma200Window => IsNaN(res.out[i].ma200)

\* C15 -- (the claim as stated) a run that starts while the store refuses
\* connections is aborted at startup, whatever its scope and mode: it never
\* enters the loop over the tickers, so no symbol's fetch, compute or write
\* step is reached.
C15_FatalAtStartup ==
    db_down =>
        /\ pc = "crashed"
        /\ last = NoPass
        /\ last.fetch_calls = 0 /\ Len(last.all_data) = 0

C17_UpsertOverwrite ==
    [][/\ \A t \in SymbolSet : \A r, q \in store'[t] :
             r.timestamp = q.timestamp => r = q
       /\ \A t \in SymbolSet :
             (IsPass(t) /\ last'.outcome = "written") =>
                 \A i \in 1..Len(last'.new_rows) :
                     {q \in store'[t] : q.timestamp = last'.new_rows[i].timestamp}
                         = {last'.new_rows[i]}]_vars

\* a committed write met a row of the same key and another close, and the
\* store holds the written row alone under that key
C17_Witness ==
    /\ last.replaced
    /\ \E i \in 1..Len(last.new_rows) :
          /\ last.new_rows[i].close # Price(last.sym, Date(last.new_rows[i].timestamp), 0)
          /\ {q \in store[last.sym] : q.timestamp = last.new_rows[i].timestamp}
                = {last.new_rows[i]}

\* C18 -- causality of the indicator engine: its output has one row for each
\* bar, in the order of the bars; row i is the row i of the engine run over
\* bars 1..i alone; and when a later bar is appended and the engine runs
\* again, every earlier row comes out as it was.
C18_Causality ==
    [][res'.fn = "calculate_indicators" =>
          /\ Len(res'.out) = Len(bars')
          /\ \A i \in 1..Len(bars') : BarOf(res'.out[i]) = bars'[i]
          /\ res = NoRes =>
                \A i \in Lengths \cap 1..(Len(bars') - 1) :
                    res'.out[i] = calculate_indicators(SubSeq(bars', 1, i))[i]
          /\ (res.fn = "calculate_indicators" /\ Len(bars') = Len(bars) + 1) =>
                /\ SubSeq(bars', 1, Len(bars)) = bars
                /\ SubSeq(res'.out, 1, Len(bars)) = res.out]_vars

\* a bar was appended to a series longer than the ma50 window and the row
\* before it carries computed values
C18_Witness ==
    /\ res.fn = "calculate_indicators" /\ res.appended >= 1
    /\ Len(bars) > Ma50Window + 1
    /\ res.out[Len(bars) - 1].ma50 # 0
    /\ res.out[Len(bars) - 1].rsi # 0
    /\ res.out[Len(bars) - 1].macd_signal # 0

\* C19 -- (the claim as stated) the per-symbol bar fetch returns every bar of
\* [startDate, endDate], in order, however the provider pages them, and the
\* empty result when the range holds no bar.
C19_FetchComplete ==
    (res.fn = "download_daily_ticker_info" /\ ~res.args.fail) =>
        LET ds == SeqOfDays({d \in tradingDays : d >= res.args.start_date
                                                /\ d <= res.args.end_date}, 0)
        IN res.out = [i \in 1..Len(ds) |-> ApiBar(res.args.ticker, ds[i], rev)]

\* C20 -- (the claim as stated) the screener never selects a persisted row
\* one of whose indicators used by the predicate was unavailable when the
\* engine computed it, and so was stored as 0, whatever the thresholds.
C20_NoZeroLeak ==
    (res.fn = "find_trading_candidates" /\ Len(bars) > 0) =>
        LET close == Col(bars, "close")
            rsi == calculate_rsi(close, RsiWindow)
            ma50 == calculate_ma(close, Ma50Window)
            ma200 == calculate_ma(close, Ma200Window)
            bb_middle == calculate_bb_middle(close, BbWindow)
            adx == calculate_adx(Col(bars, "high"), Col(bars, "low"), close, AdxWindow)
        IN \A c \in res.out :
              \A i \in 1..Len(bars) :
                  bars[i].timestamp = c.row.timestamp =>
                      /\ ~IsNaN(rsi[i]) /\ ~IsNaN(ma50[i]) /\ ~IsNaN(ma200[i])
                      /\ ~IsNaN(bb_middle[i]) /\ ~IsNaN(adx[i])

====
